---- MODULE Spec2Model ----
(***************************************************************************)
(* Model of the repository summarizer (src/repo_service.py, src/main.py):  *)
(* the pipeline process_repo and the functions it calls.                   *)
(*                                                                         *)
(* Texts.  A text is a non-empty sequence of lines joined by "\n"; a line  *)
(* is kept as the number of tokens the tokenizer makes of it, and every    *)
(* "\n" is a token of its own.  The empty string is <<0>>.  Every token    *)
(* holds at least one character, so a position in the text is 0 exactly    *)
(* when no token precedes it.                                              *)
(***************************************************************************)
EXTENDS Integers, Sequences, FiniteSets, TLC

\* ------------------------------------------------------------ bounds
MaxLines == 3
MaxFilesIn == 3
MaxBulk == 20

\* ------------------------------------------------- program constants
MAX_FILE_SIZE == 100000
MAX_FILES == 150
MAX_CONTEXT_TOKENS == 100000
max_files == 20
MIN_PER_FILE == 50
TRUNC_OVERHEAD == 20

\* --------------------------------------------------------- tokenizer
Max(a, b) == IF a >= b THEN a ELSE b
Min(a, b) == IF a <= b THEN a ELSE b

RECURSIVE SumSeq(_)
SumSeq(s) == IF s = <<>> THEN 0 ELSE Head(s) + SumSeq(Tail(s))

\* len(_enc.encode(text)): the tokens of the lines and one token per "\n".
_count_tokens(text) == SumSeq(text) + Len(text) - 1

\* _enc.decode(tokens[:n]): the text of the first n tokens.  The last line
\* of the result is the line the cut falls in (empty when the cut is right
\* after a "\n").
RECURSIVE DecodePrefix(_, _)
DecodePrefix(text, n) ==
    IF Len(text) = 1 THEN << Min(text[1], n) >>
    ELSE IF text[1] >= n THEN << n >>
    ELSE << text[1] >> \o DecodePrefix(Tail(text), n - text[1] - 1)

\* truncated.rfind("\n"): the number of tokens before the last "\n", or -1.
\* It is 0 exactly when the only "\n" is the first character.
RFindNewline(t) ==
    IF Len(t) = 1 THEN -1 ELSE _count_tokens(SubSeq(t, 1, Len(t) - 1))

\* "\n\n... [truncated] ...": an empty line, then the three words of the marker.
MARKER_WORDS == 3
TruncationMarker == << 0, MARKER_WORDS >>

\* s + suffix for a suffix that starts with "\n": the lines of s, then the
\* lines of the suffix after its first "\n".
AppendLines(s, suffixLines) == s \o suffixLines

\* The text kept before the marker (lines 201-204).
TruncatedBody(text, max_tokens) ==
    LET truncated == DecodePrefix(text, max_tokens)
        last_newline == RFindNewline(truncated)
    IN IF last_newline > 0
       THEN SubSeq(truncated, 1, Len(truncated) - 1)
       ELSE truncated

_truncate_to_tokens(text, max_tokens) ==
    IF _count_tokens(text) <= max_tokens THEN text
    ELSE AppendLines(TruncatedBody(text, max_tokens), TruncationMarker)

\* ------------------------------------------------------------- paths
\* A path is rel.parts: the directory names from the repository root, then
\* the file name.  A file is known by its relative path.
HIGH_PRIORITY_NAMES == {
    "README.md", "readme.md", "README.rst",
    "main.py", "app.py", "index.py", "server.py", "cli.py",
    "index.ts", "index.js", "app.ts", "app.js", "main.ts", "main.js",
    "setup.py", "setup.cfg", "pyproject.toml",
    "package.json", "Cargo.toml", "go.mod",
    "Makefile", "Dockerfile", "docker-compose.yml",
    "requirements.txt" }

LOW_PRIORITY_DIRS == {
    "test", "tests", "spec", "specs", "examples", "example",
    "docs_src", "benchmarks", "scripts" }

FULL_READ_NAMES == {
    "README.md", "readme.md", "README.rst",
    "main.py", "app.py", "index.py" }

SKIP_DIRS == {
    "node_modules", ".git", "__pycache__", ".venv", "venv", "env",
    "dist", "build", ".next", ".nuxt", "vendor", ".tox", ".mypy_cache",
    ".pytest_cache", "coverage", ".idea", ".vscode", "docs", ".github" }

\* The names the model uses, in the order Python compares strings.  No
\* directory name of the model is followed in another name by a character
\* below "/", so comparing paths of equal depth part by part is comparing
\* their strings.
NameOrder == <<
    "README.md", "a", "app.py", "b", "big.py", "c", "core.py", "d",
    "deep.py", "demo", "examples", "f01.py", "f02.py", "f03.py", "f04.py",
    "f05.py", "f06.py", "f07.py", "f08.py", "f09.py", "f10.py", "f11.py",
    "f12.py", "f13.py", "f14.py", "f15.py", "f16.py", "f17.py", "f18.py",
    "f19.py", "f20.py", "f21.py", "f22.py", "f23.py", "f24.py", "index.js",
    "lib", "logo.png", "main.py", "node_modules", "notes.txt", "pkg",
    "run.py", "scripts", "setup.py", "src", "test", "test_a.py", "tests",
    "util.py" >>

NameRank(n) == CHOOSE i \in 1..Len(NameOrder) : NameOrder[i] = n

\* any(filename.endswith(ext) for ext in SKIP_EXTENSIONS), on the names of
\* the model: only "logo.png" ends with a skipped extension.
HasSkipExtension(filename) == filename \in { "logo.png" }

PathName(rel) == rel[Len(rel)]
PathParts(rel) == { rel[i] : i \in 1..Len(rel) }

RECURSIVE StrLess(_, _)
StrLess(a, b) ==
    IF a = <<>> THEN b # <<>>
    ELSE IF b = <<>> THEN FALSE
    ELSE IF Head(a) = Head(b) THEN StrLess(Tail(a), Tail(b))
    ELSE NameRank(Head(a)) < NameRank(Head(b))

\* key = lambda f: (len(f.relative_to(repo_path).parts), str(f))
KeyLess(a, b) ==
    \/ Len(a) < Len(b)
    \/ Len(a) = Len(b) /\ StrLess(a, b)

\* list.sort(key=key) of a list of distinct paths.
RECURSIVE SortByKey(_)
SortByKey(S) ==
    IF S = {} THEN <<>>
    ELSE LET m == CHOOSE x \in S : \A y \in S \ {x} : KeyLess(x, y)
         IN << m >> \o SortByKey(S \ {m})

Range(s) == { s[i] : i \in 1..Len(s) }

\* The branch _prioritize_files takes for one file (lines 111-119).
TierOf(rel) ==
    IF PathName(rel) \in HIGH_PRIORITY_NAMES THEN "high"
    ELSE IF PathParts(rel) \cap LOW_PRIORITY_DIRS # {} THEN "low"
    ELSE "medium"

_prioritize_files(files) ==
    [ high   |-> SortByKey({ f \in Range(files) : TierOf(f) = "high" }),
      medium |-> SortByKey({ f \in Range(files) : TierOf(f) = "medium" }),
      low    |-> SortByKey({ f \in Range(files) : TierOf(f) = "low" }) ]

\* ----------------------------------------------------- parse_github_url
\* A URL as urlparse sees it: its hostname and the parts of
\* path.strip("/").split("/").
\* re.sub(r"\.git$", "", s), on the path parts of the model.
StripGitSuffix(part) ==
    CASE part = "repo.git" -> "repo"
      [] part = ".git" -> ""
      [] OTHER -> part

parse_github_url(u) ==
    IF u.hostname \notin { "github.com", "www.github.com" }
    THEN [ ok |-> FALSE, error |-> "ValueError: Not a GitHub URL" ]
    ELSE IF Len(u.parts) < 2
    THEN [ ok |-> FALSE, error |-> "ValueError: URL must include owner and repo" ]
    ELSE IF u.parts[1] = "" \/ StripGitSuffix(u.parts[2]) = ""
    THEN [ ok |-> FALSE, error |-> "ValueError: Could not extract owner/repo" ]
    ELSE [ ok |-> TRUE, owner |-> u.parts[1], repo |-> StripGitSuffix(u.parts[2]) ]

\* ---------------------------------------------------------- filter_files
\* os.walk with dirs[:] pruned: a file is visited when none of its ancestor
\* directories is in SKIP_DIRS.
Walked(rel) == \A i \in 1..(Len(rel) - 1) : rel[i] \notin SKIP_DIRS

Kept(fs, rel) ==
    /\ Walked(rel)
    /\ ~HasSkipExtension(PathName(rel))
    /\ fs[rel].stat_ok
    /\ fs[rel].size <= MAX_FILE_SIZE

\* The list os.walk yields, in some order; _prioritize_files sorts it.
RECURSIVE WalkOrder(_)
WalkOrder(S) ==
    IF S = {} THEN <<>>
    ELSE LET x == CHOOSE y \in S : TRUE IN << x >> \o WalkOrder(S \ {x})

filter_files(fs, priority) ==
    LET filtered == WalkOrder({ rel \in DOMAIN fs : Kept(fs, rel) })
        tiers == _prioritize_files(filtered)
    IN IF priority = "high" THEN tiers.high
       ELSE IF priority = "high+medium" THEN tiers.high \o tiers.medium
       ELSE tiers.high \o tiers.medium \o tiers.low

\* ------------------------------------------------ select_important_files
\* The reply of the ranking oracle is a sequence of segments: a code fence,
\* prose, or a JSON value.  A JSON value is a number, null, an object (its
\* keys, in order) or an array of items; an item is a string (the path it
\* spells), a number, or a nested array.
Prefix(s, n) == SubSeq(s, 1, Min(Len(s), n))

\* The guard of line 314 with < for <=.
WithinCapStrict(files) == Len(files) < max_files

\* len(files) <= max_files (line 314): no oracle call is made.
WithinCap(files) == Len(files) <= max_files

\* raw.strip(), then the two re.sub calls (lines 330-332): a leading fence
\* and a trailing fence are removed.
StripFences(raw) ==
    LET a == IF raw # <<>> /\ raw[1].seg = "fence" THEN Tail(raw) ELSE raw
    IN IF a # <<>> /\ a[Len(a)].seg = "fence"
       THEN SubSeq(a, 1, Len(a) - 1) ELSE a

\* json.loads(raw): a value when the text is exactly one JSON value.
JsonLoads(raw) ==
    IF Len(raw) = 1 /\ raw[1].seg = "json"
    THEN [ ok |-> TRUE, value |-> raw[1].value ]
    ELSE [ ok |-> FALSE ]

\* What "for p in selected" iterates over, when selected is iterable.
Iterable(value) == value.t \in { "array", "object" }
Items(value) == IF value.t = "array" THEN value.items ELSE value.keys

\* "p in rel_to_abs" raises TypeError for an unhashable p (a nested array).
Hashable(item) == item.t # "list"

Known(files, item) == item.t = "str" /\ item.path \in Range(files)

\* Lines 334-342, given the stripped reply.
SelectFromReply(files, raw) ==
    LET loaded == JsonLoads(StripFences(raw))
    IN IF ~loaded.ok
       THEN [ status |-> "return", value |-> Prefix(files, max_files) ]
       ELSE IF ~Iterable(loaded.value)
       THEN [ status |-> "raise", error |-> "TypeError" ]
       ELSE IF \E i \in 1..Len(Items(loaded.value)) :
                   ~Hashable(Items(loaded.value)[i])
       THEN [ status |-> "raise", error |-> "TypeError" ]
       ELSE LET known == SelectSeq(Items(loaded.value),
                                   LAMBDA it : Known(files, it))
                result == [ i \in 1..Len(known) |-> known[i].path ]
            IN [ status |-> "return",
                 value  |-> IF result # <<>> THEN result
                            ELSE Prefix(files, max_files) ]

\* ------------------------------------------------ read_all_contents
\* The files of a clone: fs[path] is [size, readable, content].
\* SYSTEM_PROMPT, line by line (lines 49-60), in whitespace-separated words.
SYSTEM_PROMPT == << 18, 0, 6, 10, 27, 12, 10, 9, 16, 0, 20, 18 >>

\* str(rel_path): one token per part and one per "/" between parts.
PathTokens(rel) == 2 * Len(rel) - 1

\* "  " * depth: a run of spaces is one token, no spaces is none.
IndentTokens(depth) == IF depth > 0 THEN 1 ELSE 0

\* The lines _build_directory_tree adds for one file (lines 170-178): a
\* line "name/" for each ancestor directory not seen yet, then the file.
TreeLinesOfFile(rel, seen_dirs) ==
    LET idx == SelectSeq([ i \in 1..(Len(rel) - 1) |-> i ],
                         LAMBDA i : SubSeq(rel, 1, i) \notin seen_dirs)
    IN [ j \in 1..Len(idx) |-> IndentTokens(idx[j] - 1) + 2 ]
       \o << IndentTokens(Len(rel) - 1) + 1 >>

RECURSIVE TreeLines(_, _)
TreeLines(files, seen_dirs) ==
    IF files = <<>> THEN <<>>
    ELSE LET rel == Head(files)
         IN TreeLinesOfFile(rel, seen_dirs)
            \o TreeLines(Tail(files),
                         seen_dirs \cup { SubSeq(rel, 1, i) : i \in 1..(Len(rel) - 1) })

\* "# Directory Structure", "```", the lines of the files, "```".
_build_directory_tree(files) == << 3, 1 >> \o TreeLines(files, {}) \o << 1 >>

\* f"## File: {rel_path}\n```\n{content}\n```"
Chunk(rel, content) == << 2 + PathTokens(rel), 1 >> \o content \o << 1 >>

\* a + "\n\n" + b
JoinBlank(a, b) == a \o << 0 >> \o b

\* "\n\n".join(parts)
RECURSIVE JoinParts(_)
JoinParts(parts) ==
    IF parts = <<>> THEN << 0 >>
    ELSE IF Len(parts) = 1 THEN parts[1]
    ELSE JoinBlank(parts[1], JoinParts(Tail(parts)))

RECURSIVE SumChunkTokens(_)
SumChunkTokens(parts) ==
    IF parts = <<>> THEN 0
    ELSE _count_tokens(Head(parts)) + SumChunkTokens(Tail(parts))

\* max(remaining_budget // len(trimmable_files), 50)
PerFileBudget(remaining_budget, n) ==
    Max(remaining_budget \div n, MIN_PER_FILE)

\* The chunk of one trimmable file (lines 252-259).
TrimmedChunk(rel, content, per_file_budget) ==
    IF _count_tokens(Chunk(rel, content)) > per_file_budget
    THEN Chunk(rel, _truncate_to_tokens(content, per_file_budget - TRUNC_OVERHEAD))
    ELSE Chunk(rel, content)

\* The loop over trimmable_files (lines 251-265), with its break.
RECURSIVE TrimLoop(_, _, _, _, _)
TrimLoop(fs, trimmable, total_tokens, per_file_budget, token_budget) ==
    IF trimmable = <<>> THEN <<>>
    ELSE LET chunk == TrimmedChunk(Head(trimmable), fs[Head(trimmable)].content,
                                   per_file_budget)
             chunk_tokens == _count_tokens(chunk)
         IN IF total_tokens + chunk_tokens > token_budget THEN <<>>
            ELSE << chunk >> \o TrimLoop(fs, Tail(trimmable),
                                        total_tokens + chunk_tokens,
                                        per_file_budget, token_budget)

\* read_all_contents: the document, and what the function computed on the way.
read_all_contents(fs, files) ==
    LET tree == _build_directory_tree(files)
        token_budget == MAX_CONTEXT_TOKENS - _count_tokens(SYSTEM_PROMPT)
        files_to_read == SubSeq(files, 1, Min(Len(files), MAX_FILES))
        readable == SelectSeq(files_to_read, LAMBDA f : fs[f].readable)
        full_read_files ==
            SelectSeq(readable, LAMBDA f : PathName(f) \in FULL_READ_NAMES)
        trimmable_files ==
            SelectSeq(readable, LAMBDA f : PathName(f) \notin FULL_READ_NAMES)
        full_parts ==
            [ i \in 1..Len(full_read_files) |->
                Chunk(full_read_files[i], fs[full_read_files[i]].content) ]
        total_tokens == _count_tokens(tree) + SumChunkTokens(full_parts)
        remaining_budget == token_budget - total_tokens
        shares == trimmable_files # <<>> /\ remaining_budget > 0
        per_file_budget ==
            IF shares THEN PerFileBudget(remaining_budget, Len(trimmable_files))
            ELSE 0
        trim_parts ==
            IF shares
            THEN TrimLoop(fs, trimmable_files, total_tokens, per_file_budget,
                          token_budget)
            ELSE <<>>
    IN [ document        |-> JoinBlank(tree, JoinParts(full_parts \o trim_parts)),
         per_file_budget |-> per_file_budget,
         trimmable       |-> trimmable_files,
         trim_parts      |-> trim_parts,
         token_budget    |-> token_budget ]

\* ------------------------------------------------------------- state
VARIABLES
    t_pc, text, max_tokens, t_body, t_result,
    p_pc, p_files, p_tiers,
    r_pc, r_fs, r_files, r_out,
    pc, caller, url, priority, tmp_dir, clone_started, fs, files, reply,
    oracle_calls, important_files, context, error

truncVars == << t_pc, text, max_tokens, t_body, t_result >>
prioVars == << p_pc, p_files, p_tiers >>
readVars == << r_pc, r_fs, r_files, r_out >>
pipeVars == << pc, caller, url, priority, tmp_dir, clone_started, fs, files,
              reply, oracle_calls, important_files, context, error >>
vars == << truncVars, prioVars, readVars, pipeVars >>

TruncIdle ==
    /\ t_pc = "idle"
    /\ text = << 0 >>
    /\ max_tokens = 0
    /\ t_body = << 0 >>
    /\ t_result = << 0 >>

PrioIdle ==
    /\ p_pc = "idle"
    /\ p_files = <<>>
    /\ p_tiers = [ high |-> <<>>, medium |-> <<>>, low |-> <<>> ]

NoRead ==
    [ document |-> << 0 >>, per_file_budget |-> 0, trimmable |-> <<>>,
      trim_parts |-> <<>>, token_budget |-> 0 ]

ReadIdle ==
    /\ r_pc = "idle"
    /\ r_fs = <<>>
    /\ r_files = <<>>
    /\ r_out = NoRead

NoUrl == [ hostname |-> "", parts |-> <<>> ]

PipeIdle ==
    /\ pc = "idle"
    /\ caller = "none"
    /\ url = NoUrl
    /\ priority = ""
    /\ tmp_dir = "none"
    /\ clone_started = FALSE
    /\ fs = <<>>
    /\ files = <<>>
    /\ reply = <<>>
    /\ oracle_calls = 0
    /\ important_files = <<>>
    /\ context = << 0 >>
    /\ error = "none"

\* ------------------------------------- _truncate_to_tokens as a call
\* max_tokens is per_file_budget - 20 with per_file_budget >= 50 (lines
\* 249 and 257), so the calls the program makes have max_tokens >= 30.
LineSizes == {0, 1, 29, 40}
TokenLimits == {30, 31, 80}
Texts == UNION { [1..n -> LineSizes] : n \in 1..MaxLines }

TruncInit ==
    /\ t_pc = "call"
    /\ text \in Texts
    /\ max_tokens \in TokenLimits
    /\ t_body = << 0 >>
    /\ t_result = << 0 >>
    /\ PrioIdle
    /\ ReadIdle
    /\ PipeIdle

TruncReturnWhole ==
    /\ t_pc = "call"
    /\ _count_tokens(text) <= max_tokens
    /\ t_result' = _truncate_to_tokens(text, max_tokens)
    /\ t_pc' = "returned"
    /\ UNCHANGED << text, max_tokens, t_body, prioVars, readVars, pipeVars >>

TruncCut ==
    /\ t_pc = "call"
    /\ _count_tokens(text) > max_tokens
    /\ t_body' = TruncatedBody(text, max_tokens)
    /\ t_result' = _truncate_to_tokens(text, max_tokens)
    /\ t_pc' = "cut"
    /\ UNCHANGED << text, max_tokens, prioVars, readVars, pipeVars >>

TruncNext == TruncReturnWhole \/ TruncCut

SpecTrunc == TruncInit /\ [][TruncNext]_vars

\* A text consists only of complete lines of the original: every line but
\* the last is a line of the original, and the last is one too or is empty
\* (the cut is right after a "\n").
OnlyCompleteLines(part, original) ==
    /\ Len(part) <= Len(original)
    /\ \A i \in 1..(Len(part) - 1) : part[i] = original[i]
    /\ \/ part[Len(part)] = original[Len(part)]
       \/ part[Len(part)] = 0

\* C8: whenever _truncate_to_tokens shortens a text, the part of the result
\* before the truncation marker consists only of complete lines of the
\* original text (the cut is never inside a line).
C8_CutAtLineBoundary ==
    t_pc = "cut" =>
        /\ t_result = AppendLines(t_body, TruncationMarker)
        /\ OnlyCompleteLines(t_body, text)

\* --------------------------------------- _prioritize_files as a call
PrioPaths == {
    << "README.md" >>, << "util.py" >>, << "scripts" >>,
    << "src", "util.py" >>, << "src", "test" >>,
    << "tests", "main.py" >>, << "tests", "test_a.py" >>,
    << "examples", "demo", "run.py" >> }

DistinctSeqs(S, n) ==
    UNION { { s \in [1..k -> S] : \A i, j \in 1..k : i # j => s[i] # s[j] }
            : k \in 0..n }

PrioInit ==
    /\ p_pc = "call"
    /\ p_files \in DistinctSeqs(PrioPaths, MaxFilesIn)
    /\ p_tiers = [ high |-> <<>>, medium |-> <<>>, low |-> <<>> ]
    /\ TruncIdle
    /\ ReadIdle
    /\ PipeIdle

Prioritize ==
    /\ p_pc = "call"
    /\ p_tiers' = _prioritize_files(p_files)
    /\ p_pc' = "returned"
    /\ UNCHANGED << p_files, truncVars, readVars, pipeVars >>

PrioNext == Prioritize

SpecPrio == PrioInit /\ [][PrioNext]_vars

\* The tier the rule of the specification gives a file: only the names of
\* its ancestor directories decide between LOW and MEDIUM.
TierOfAncestorsOnly(rel) ==
    IF PathName(rel) \in HIGH_PRIORITY_NAMES THEN "high"
    ELSE IF { rel[i] : i \in 1..(Len(rel) - 1) } \cap LOW_PRIORITY_DIRS # {}
         THEN "low"
    ELSE "medium"

\* C7: every candidate is placed in exactly one tier: HIGH if its filename
\* is a high-value name; otherwise LOW if and only if the name of one of its
\* ancestor directories (not the filename itself) is a low-value directory
\* name; otherwise MEDIUM.
C7_TierRule ==
    p_pc = "returned" =>
        \A f \in Range(p_files) :
            /\ f \in Range(p_tiers.high) <=> TierOfAncestorsOnly(f) = "high"
            /\ f \in Range(p_tiers.low) <=> TierOfAncestorsOnly(f) = "low"
            /\ f \in Range(p_tiers.medium) <=> TierOfAncestorsOnly(f) = "medium"

\* The tiers partition the input, and each tier is sorted by (depth, path).
PrioPartitionSorted ==
    p_pc = "returned" =>
        /\ Len(p_tiers.high) + Len(p_tiers.medium) + Len(p_tiers.low)
               = Len(p_files)
        /\ Range(p_tiers.high) \cup Range(p_tiers.medium)
               \cup Range(p_tiers.low) = Range(p_files)
        /\ \A t \in { p_tiers.high, p_tiers.medium, p_tiers.low } :
               \A i, j \in 1..Len(t) : i < j => KeyLess(t[i], t[j])

\* ----------------------------------------- read_all_contents as a call
ReadPaths == {
    << "README.md" >>, << "util.py" >>, << "src", "main.py" >>,
    << "src", "core.py" >>, << "a", "b", "c", "d", "deep.py" >> }

\* The contents of the files in the clones the model reads: every file is
\* at most MAX_FILE_SIZE bytes, and a token is at least one byte.
ReadContent(rel, v) ==
    IF rel = << "README.md" >> THEN
        CASE v = 1 -> << 10, 0, 25 >>
          [] v = 2 -> << 60000 >>
          [] v = 3 -> << 99730 >>
          [] OTHER -> << 99000, 700 >>
    ELSE IF rel = << "src", "main.py" >> THEN
        CASE v = 2 -> << 30000, 30000 >>
          [] OTHER -> << 20, 20 >>
    ELSE IF rel = << "util.py" >> THEN
        CASE v = 1 -> << 5 >>
          [] v = 2 -> << 100, 100 >>
          [] OTHER -> << 0, 45000, 45000 >>
    ELSE IF rel = << "src", "core.py" >> THEN
        CASE v = 1 -> << 40, 40, 40 >>
          [] OTHER -> << 100 >>
    ELSE
        CASE v = 1 -> << 12 >>
          [] OTHER -> << 30, 30, 30, 30 >>

ReadVariants == 1..5

ReadFS(v) ==
    [ rel \in ReadPaths |->
        [ size     |-> Min(MAX_FILE_SIZE, 2 * _count_tokens(ReadContent(rel, v))),
          readable |-> ~(v = 5 /\ rel = << "util.py" >>),
          content  |-> ReadContent(rel, v) ] ]

ReadInit ==
    /\ r_pc = "call"
    /\ r_fs \in { ReadFS(v) : v \in ReadVariants }
    /\ r_files \in DistinctSeqs(ReadPaths, MaxFilesIn)
    /\ r_out = NoRead
    /\ TruncIdle
    /\ PrioIdle
    /\ PipeIdle

ReadAllContents ==
    /\ r_pc = "call"
    /\ r_out' = read_all_contents(r_fs, r_files)
    /\ r_pc' = "returned"
    /\ UNCHANGED << r_fs, r_files, truncVars, prioVars, pipeVars >>

ReadNext == ReadAllContents

SpecRead == ReadInit /\ [][ReadNext]_vars

\* C1: the document read_all_contents returns, together with the system
\* prompt, never exceeds MAX_CONTEXT_TOKENS tokens.
C1_DocumentWithinBudget ==
    r_pc = "returned" =>
        _count_tokens(r_out.document) + _count_tokens(SYSTEM_PROMPT)
            <= MAX_CONTEXT_TOKENS

\* C10: every trimmable file's chunk that is added to the document has a
\* token count of at most the per-file share.
C10_ChunkWithinShare ==
    r_pc = "returned" =>
        \A i \in 1..Len(r_out.trim_parts) :
            _count_tokens(r_out.trim_parts[i]) <= r_out.per_file_budget

\* ------------------------------------------------ the pipeline
\* A request reaches process_repo through the HTTP handler summarize
\* (src/main.py) or by a direct call of the function.
Urls == {
    [ hostname |-> "github.com", parts |-> << "owner", "repo.git" >> ],
    [ hostname |-> "www.github.com", parts |-> << "owner", "repo" >> ],
    [ hostname |-> "gitlab.com", parts |-> << "owner", "repo" >> ],
    [ hostname |-> "github.com", parts |-> << "owner" >> ],
    [ hostname |-> "github.com", parts |-> << "owner", ".git" >> ] }

PriorityModes == { "all", "high+medium", "high" }
Priorities == PriorityModes \cup { "low" }

BulkNames == <<
    "f01.py", "f02.py", "f03.py", "f04.py", "f05.py", "f06.py", "f07.py",
    "f08.py", "f09.py", "f10.py", "f11.py", "f12.py", "f13.py", "f14.py",
    "f15.py", "f16.py", "f17.py", "f18.py", "f19.py", "f20.py", "f21.py",
    "f22.py", "f23.py", "f24.py" >>

\* The clones of the model: a README, an entry point, a test, n source
\* files, and files the scanner drops (a skipped directory, a skipped
\* extension, a file over MAX_FILE_SIZE, a file stat fails on).
FixedPaths == {
    << "README.md" >>, << "src", "main.py" >>, << "tests", "test_a.py" >>,
    << "node_modules", "lib", "index.js" >>, << "logo.png" >>,
    << "big.py" >>, << "notes.txt" >> }

RepoPaths(n) == FixedPaths \cup { << "pkg", BulkNames[i] >> : i \in 1..n }

RepoContent(rel) ==
    IF rel = << "README.md" >> THEN << 10, 0, 25 >>
    ELSE IF rel = << "src", "main.py" >> THEN << 20, 20 >>
    ELSE IF rel = << "big.py" >> THEN << 50000, 50000 >>
    ELSE << 5, 5 >>

Repo(n) ==
    [ rel \in RepoPaths(n) |->
        [ size     |-> IF rel = << "big.py" >> THEN MAX_FILE_SIZE + 1
                       ELSE 4 * _count_tokens(RepoContent(rel)),
          stat_ok  |-> rel # << "notes.txt" >>,
          readable |-> TRUE,
          content  |-> RepoContent(rel) ] ]

RepoSizes == { 0, MaxBulk - 3, MaxBulk - 2, MaxBulk }

\* The replies of the ranking oracle the model draws from.
Str(rel) == [ t |-> "str", path |-> rel ]
Unknown == [ t |-> "str", path |-> << "src", "missing.py" >> ]
Num == [ t |-> "num" ]
Nested == [ t |-> "list" ]
Reverse(s) == [ i \in 1..Len(s) |-> s[Len(s) + 1 - i] ]

ReplyItems(fl) ==
    { [ i \in 1..k |-> Str(Reverse(fl)[i]) ] : k \in 0..Len(fl) }
    \cup { [ i \in 1..k |-> Str(fl[1]) ] : k \in { 2, max_files + 1 } }
    \cup { << Unknown >>, << Unknown, Str(fl[2]) >>, << Num >>,
           << Num, Str(fl[1]) >>, << Nested >>, << Str(fl[1]), Nested >> }

JsonValues(fl) ==
    { [ t |-> "array", items |-> it ] : it \in ReplyItems(fl) }
    \cup { [ t |-> "number" ], [ t |-> "null" ],
           [ t |-> "object", keys |-> << Unknown >> ],
           [ t |-> "object", keys |-> << Str(fl[1]) >> ] }

Fence == [ seg |-> "fence" ]
Prose == [ seg |-> "prose" ]
Json(v) == [ seg |-> "json", value |-> v ]

Replies(fl) ==
    { << Json(v) >> : v \in JsonValues(fl) }
    \cup { << Fence, Json(v), Fence >> : v \in JsonValues(fl) }
    \cup { << Prose >>, << Prose, Json([ t |-> "array", items |-> << Str(fl[1]) >> ]) >> }

Init ==
    /\ pc = "request"
    /\ caller \in { "summarize", "direct" }
    /\ url \in Urls
    /\ priority \in Priorities
    /\ tmp_dir = "none"
    /\ clone_started = FALSE
    /\ fs = <<>>
    /\ files = <<>>
    /\ reply = <<>>
    /\ oracle_calls = 0
    /\ important_files = <<>>
    /\ context = << 0 >>
    /\ error = "none"
    /\ TruncIdle
    /\ PrioIdle
    /\ ReadIdle

Others == << truncVars, prioVars, readVars >>

\* summarize (src/main.py 35-44): the handler rejects a bad URL or mode.
HttpReject ==
    /\ pc = "request" /\ caller = "summarize"
    /\ ~parse_github_url(url).ok \/ priority \notin PriorityModes
    /\ pc' = "http_400"
    /\ error' = "HTTPException 400"
    /\ UNCHANGED << caller, url, priority, tmp_dir, clone_started, fs, files,
                    reply, oracle_calls, important_files, context, Others >>

\* summarize (src/main.py 46-47): the handler calls process_repo.
HttpCall ==
    /\ pc = "request" /\ caller = "summarize"
    /\ parse_github_url(url).ok /\ priority \in PriorityModes
    /\ pc' = "process_repo"
    /\ UNCHANGED << caller, url, priority, tmp_dir, clone_started, fs, files,
                    reply, oracle_calls, important_files, context, error, Others >>

\* process_repo called by another caller, with any arguments.
DirectCall ==
    /\ pc = "request" /\ caller = "direct"
    /\ pc' = "process_repo"
    /\ UNCHANGED << caller, url, priority, tmp_dir, clone_started, fs, files,
                    reply, oracle_calls, important_files, context, error, Others >>

\* Line 349: parse_github_url raises ValueError.
ParseUrlFails ==
    /\ pc = "process_repo"
    /\ ~parse_github_url(url).ok
    /\ error' = parse_github_url(url).error
    /\ pc' = "raised"
    /\ UNCHANGED << caller, url, priority, tmp_dir, clone_started, fs, files,
                    reply, oracle_calls, important_files, context, Others >>

\* Line 350, clone_repo: mkdtemp, then git clone succeeds.
CloneOk ==
    /\ pc = "process_repo"
    /\ parse_github_url(url).ok
    /\ \E n \in RepoSizes : fs' = Repo(n)
    /\ tmp_dir' = "exists"
    /\ clone_started' = TRUE
    /\ pc' = "filter"
    /\ UNCHANGED << caller, url, priority, files, reply, oracle_calls,
                    important_files, context, error, Others >>

\* Line 350, clone_repo: mkdtemp, then git clone exits non-zero and
\* subprocess.run(check=True) raises; the call is outside the try block.
CloneFails ==
    /\ pc = "process_repo"
    /\ parse_github_url(url).ok
    /\ tmp_dir' = "exists"
    /\ clone_started' = TRUE
    /\ error' = "CalledProcessError"
    /\ pc' = "raised"
    /\ UNCHANGED << caller, url, priority, fs, files, reply, oracle_calls,
                    important_files, context, Others >>

\* Line 353.
Filter ==
    /\ pc = "filter"
    /\ files' = filter_files(fs, priority)
    /\ pc' = "select"
    /\ UNCHANGED << caller, url, priority, tmp_dir, clone_started, fs, reply,
                    oracle_calls, important_files, context, error, Others >>

\* Lines 314-315.
SelectIdentity ==
    /\ pc = "select"
    /\ WithinCap(files)
    /\ important_files' = files
    /\ pc' = "read"
    /\ UNCHANGED << caller, url, priority, tmp_dir, clone_started, fs, files,
                    reply, oracle_calls, context, error, Others >>

\* Lines 320-328: the call of the ranking oracle raises.
SelectOracleUnreachable ==
    /\ pc = "select"
    /\ ~WithinCap(files)
    /\ oracle_calls' = oracle_calls + 1
    /\ reply' = << [ seg |-> "unreachable" ] >>
    /\ error' = "APIConnectionError"
    /\ pc' = "finally"
    /\ UNCHANGED << caller, url, priority, tmp_dir, clone_started, fs, files,
                    important_files, context, Others >>

\* Lines 320-342: the oracle replies and the reply is read.
SelectFromOracle ==
    /\ pc = "select"
    /\ ~WithinCap(files)
    /\ oracle_calls' = oracle_calls + 1
    /\ \E raw \in Replies(files) :
         /\ reply' = raw
         /\ LET out == SelectFromReply(files, raw)
            IN IF out.status = "return"
               THEN /\ important_files' = out.value
                    /\ pc' = "read"
                    /\ UNCHANGED error
               ELSE /\ error' = out.error
                    /\ pc' = "finally"
                    /\ UNCHANGED important_files
    /\ UNCHANGED << caller, url, priority, tmp_dir, clone_started, fs, files,
                    context, Others >>

\* Line 355.
Read ==
    /\ pc = "read"
    /\ context' = read_all_contents(fs, important_files).document
    /\ pc' = "summarize"
    /\ UNCHANGED << caller, url, priority, tmp_dir, clone_started, fs, files,
                    reply, oracle_calls, important_files, error, Others >>

\* Line 356: the summarization oracle answers.
SummarizeOk ==
    /\ pc = "summarize"
    /\ pc' = "finally"
    /\ UNCHANGED << caller, url, priority, tmp_dir, clone_started, fs, files,
                    reply, oracle_calls, important_files, context, error, Others >>

\* Line 356: the call of the summarization oracle raises.
SummarizeFails ==
    /\ pc = "summarize"
    /\ error' = "APIError"
    /\ pc' = "finally"
    /\ UNCHANGED << caller, url, priority, tmp_dir, clone_started, fs, files,
                    reply, oracle_calls, important_files, context, Others >>

\* Lines 357-360: rmtree, then the return or the pending exception.
Finally ==
    /\ pc = "finally"
    /\ tmp_dir' = "removed"
    /\ pc' = IF error = "none" THEN "returned" ELSE "raised"
    /\ UNCHANGED << caller, url, priority, clone_started, fs, files, reply,
                    oracle_calls, important_files, context, error, Others >>

\* summarize (src/main.py 46-51): the response of the handler.
HttpRespond ==
    /\ pc \in { "returned", "raised" } /\ caller = "summarize"
    /\ pc' = IF pc = "returned" THEN "http_200" ELSE "http_500"
    /\ UNCHANGED << caller, url, priority, tmp_dir, clone_started, fs, files,
                    reply, oracle_calls, important_files, context, error, Others >>

Next ==
    \/ HttpReject \/ HttpCall \/ DirectCall
    \/ ParseUrlFails \/ CloneOk \/ CloneFails
    \/ Filter
    \/ SelectIdentity \/ SelectOracleUnreachable \/ SelectFromOracle
    \/ Read \/ SummarizeOk \/ SummarizeFails
    \/ Finally \/ HttpRespond

Spec == Init /\ [][Next]_vars

\* --------------------------------------------- claims on the pipeline
AfterSelect ==
    pc \in { "read", "summarize", "finally", "returned", "raised",
             "http_200", "http_500" }

ProcessRepoEntered == pc \notin { "request", "http_400" }

\* C2: by the time process_repo returns or raises, any temporary directory
\* created for the clone has been removed, on every exit path.
C2_TmpDirRemovedOnExit ==
    pc \in { "returned", "raised", "http_200", "http_500" } => tmp_dir # "exists"

\* C3: the list select_important_files returns has length <= 20 and every
\* element of it is an element of the input list.
C3_SelectionCapped ==
    pc = "read" =>
        /\ Len(important_files) <= max_files
        /\ Range(important_files) \subseteq Range(files)

\* The part of C3 the code keeps: the selection is a subset of the input.
SelectionSubset ==
    pc = "read" => Range(important_files) \subseteq Range(files)

\* A reply that is not a list of relative-path strings, or none of whose
\* strings matches a known path.
NotAPathList(fl, raw) ==
    LET loaded == JsonLoads(StripFences(raw))
    IN \/ ~loaded.ok
       \/ loaded.value.t # "array"
       \/ \E i \in 1..Len(loaded.value.items) : loaded.value.items[i].t # "str"
       \/ \A i \in 1..Len(loaded.value.items) : ~Known(fl, loaded.value.items[i])

OracleReplied == reply # <<>> /\ reply[1].seg # "unreachable"
OracleUnreachable == reply # <<>> /\ reply[1].seg = "unreachable"

\* C4: with more than 20 candidates and a reply that is not parseable as a
\* list of relative-path strings, or that matches no known path,
\* select_important_files raises no error and returns exactly the first 20
\* elements of its input.
C4_MalformedReplyFallsBack ==
    (OracleReplied /\ NotAPathList(files, reply)) =>
        /\ error # "TypeError"
        /\ important_files = Prefix(files, max_files)

\* C5: when the call of the ranking oracle itself fails, the selection falls
\* back to the first 20 candidates and the failure is not propagated to the
\* caller of process_repo.
C5_UnreachableOracleFallsBack ==
    OracleUnreachable =>
        /\ error # "APIConnectionError"
        /\ important_files = Prefix(files, max_files)

\* C6: called with a malformed URL or with a priority mode other than
\* "all", "high+medium" and "high", process_repo fails with a validation
\* error before any clone is started and before any oracle call is made.
C6_ValidationBeforeClone ==
    (ProcessRepoEntered
        /\ (~parse_github_url(url).ok \/ priority \notin PriorityModes)) =>
        /\ ~clone_started
        /\ tmp_dir = "none"
        /\ oracle_calls = 0
        /\ pc \in { "process_repo", "raised" }

\* The part of C6 the code keeps: a malformed URL is rejected before any
\* clone or oracle call.
BadUrlRejectedBeforeClone ==
    (ProcessRepoEntered /\ ~parse_github_url(url).ok) =>
        /\ ~clone_started
        /\ tmp_dir = "none"
        /\ oracle_calls = 0
        /\ pc \in { "process_repo", "raised" }

\* (fs is set by a successful clone, so AfterSelect /\ fs # <<>> says that
\* select_important_files has run.)
\* C9: given at most 20 candidates, select_important_files returns its
\* input unchanged (same elements, same order) and no call to the ranking
\* oracle is made.
C9_IdentityWithinCap ==
    (AfterSelect /\ fs # <<>> /\ Len(files) <= max_files) =>
        /\ important_files = files
        /\ oracle_calls = 0
        /\ reply = <<>>

C9_Witness ==
    /\ pc = "read"
    /\ Len(files) = max_files
    /\ important_files = files
    /\ oracle_calls = 0

====
